---- MODULE Spec2Model ----
(***************************************************************************)
(* The Books facade of demo.py over a DynamoDB table, and the demo driver  *)
(* run_scenario.  The facade keeps one field, self.table; every method     *)
(* issues its requests to the store synchronously and maps the outcome.    *)
(* The store is the collaborator behind boto3: it is modelled by the       *)
(* requests the facade sends (the key schema, the item and the expressions *)
(* are the ones the source builds) and by the outcomes boto3 hands back.   *)
(***************************************************************************)
EXTENDS Integers, Sequences, FiniteSets, TLC

VARIABLES
    table,      \* Books.table: the retained handle, None or Table(name)
    store,      \* the remote store: per table name, whether it exists and its items
    ret,        \* the last facade call: its name and its outcome
    calls,      \* the remote requests the last facade call issued, in order
    pc,         \* run_scenario's position ("free": any caller drives the facade)
    lastAdd,    \* history: the add_book items that are the latest write to their key
    created     \* history: the names create_table returned, until delete_table is called

vars == <<table, store, ret, calls, pc, lastAdd, created>>

-----------------------------------------------------------------------------
(* Bounds and input sets *)

\* A caller's write_batch holds at most MaxBatch records.
MaxBatch == 2

\* The callers of Spec write no more than MaxItems items into a table.
MaxItems == 2

\* The names a caller asks about; it creates only the first.
TableNames == {"table-books", "no-such-table"}

Creatable == {"table-books"}

Titles == {"Eloquent JavaScript, Third Edition", "Understanding ECMAScript 6"}

\* The keys (isbn, title) a caller uses: two of them share the isbn, two the title.
Keys ==
    {<<"9781593279509", "Eloquent JavaScript, Third Edition">>,
     <<"9781593279509", "Understanding ECMAScript 6">>,
     <<"9781593277574", "Understanding ECMAScript 6">>}

\* The (author, pages) values a caller writes: those of my_book and book_update.
Written == {<<"Marijn Haverbeke", 472>>, <<"John", 1000>>}

\* The service errors the store may answer any request with (one code stands
\* for every code but the store's own ResourceNotFoundException,
\* ResourceInUseException and ValidationException, which arise from the state).
ServiceErrors == {"InternalServerError"}

Faults == {"ok"} \cup ServiceErrors

-----------------------------------------------------------------------------
(* Values *)

\* Python values are tagged by their type, so that any two can be compared.
None == [none |-> TRUE]

True == [bool |-> TRUE]

False == [bool |-> FALSE]

List(S) == [list |-> S]

\* dyn_resource.Table(name): the handle of the table of that name.
Table(name) == [name |-> name]

NoError == [type |-> "none", code |-> "none"]

ClientError(code) == [type |-> "ClientError", code |-> code]

\* self.table is None: self.table.<method> raises before any request is built.
AttributeError == [type |-> "AttributeError", code |-> "NoneType"]

\* response['Item'] on a response that carries no Item.
KeyError == [type |-> "KeyError", code |-> "Item"]

\* wait_until_exists gave up: botocore's WaiterError, which is no ClientError.
WaiterError == [type |-> "WaiterError", code |-> "TableExists"]

Return(v) == [kind |-> "return", value |-> v]

Raise(e) == [kind |-> "raise", value |-> e]

Call(api, err) == [api |-> api, err |-> err]

Result(t, s, o, c) == [table |-> t, store |-> s, out |-> o, calls |-> c]

-----------------------------------------------------------------------------
(* The store *)

HashKey == "isbn"

RangeKey == "title"

KeyOf(item) == <<item[HashKey], item[RangeKey]>>

NoItems == [k \in {} |-> NoError]

NoTable == [exists |-> FALSE, items |-> NoItems]

EmptyTable == [exists |-> TRUE, items |-> NoItems]

\* The error of a request addressed to table `name`: the injected service
\* error, or the store's own answer for a table it does not hold.
RequestError(st, name, fault) ==
    IF fault # "ok" THEN ClientError(fault)
    ELSE IF ~st[name].exists THEN ClientError("ResourceNotFoundException")
    ELSE NoError

\* Variant of PutItem for the sensitivity check of C1: a put that keeps the
\* item already stored at the key (a conditional put).
PutItemIfAbsent(items, item) ==
    [k \in DOMAIN items \cup {KeyOf(item)} |->
        IF k \in DOMAIN items THEN items[k] ELSE item]

\* PutItem: the item replaces whatever is stored at its key.
PutItem(items, item) ==
    [k \in DOMAIN items \cup {KeyOf(item)} |->
        IF k = KeyOf(item) THEN item ELSE items[k]]

\* Variant of UpdateItem for the sensitivity check of C4: the update stores a
\* fresh four-attribute item, as a put would.
UpdateItemReplace(items, isbn, title, author, pages) ==
    PutItem(items, [isbn |-> isbn, title |-> title, author |-> author, pages |-> pages])

\* UpdateItem with "set author=:a, pages=:p": the two attributes are set on
\* the item at the key, which is created from the key when it is missing.
UpdateItem(items, isbn, title, author, pages) ==
    LET key == <<isbn, title>>
        old == IF key \in DOMAIN items
               THEN items[key]
               ELSE [a \in {HashKey, RangeKey} |-> IF a = HashKey THEN isbn ELSE title]
        new == [a \in DOMAIN old \cup {"author", "pages"} |->
                   IF a = "author" THEN author
                   ELSE IF a = "pages" THEN pages
                   ELSE old[a]]
    IN  [k \in DOMAIN items \cup {key} |-> IF k = key THEN new ELSE items[k]]

\* ReturnValues="UPDATED_NEW": the updated attributes as they are after the update.
UpdatedNew(items, isbn, title) ==
    [a \in {"author", "pages"} |-> items[<<isbn, title>>][a]]

\* GetItem's response: it carries "Item" only when an item is stored at the key.
GetItem(items, isbn, title) ==
    IF <<isbn, title>> \in DOMAIN items
    THEN [a \in {"Item"} |-> items[<<isbn, title>>]]
    ELSE [a \in {} |-> NoError]

DeleteItem(items, isbn, title) ==
    [k \in DOMAIN items \ {<<isbn, title>>} |-> items[k]]

\* Query: the key condition must hold an equality on the partition key.
QueryError(cond) ==
    IF HashKey \in DOMAIN cond THEN NoError ELSE ClientError("ValidationException")

QueryItems(items, cond) ==
    {items[k] : k \in {j \in DOMAIN items :
                          \A a \in DOMAIN cond : items[j][a] = cond[a]}}

\* BatchWriteItem rejects a request that names one key twice.
BatchError(books) ==
    IF \E i, j \in 1..Len(books) : i # j /\ KeyOf(books[i]) = KeyOf(books[j])
    THEN ClientError("ValidationException")
    ELSE NoError

\* Variant of BatchWriteItem for the sensitivity check of C7: only the four
\* attributes add_book knows are written.
BatchWriteCore(items, books) ==
    [k \in DOMAIN items \cup {KeyOf(books[i]) : i \in 1..Len(books)} |->
        IF \E i \in 1..Len(books) : KeyOf(books[i]) = k
        THEN LET b == books[CHOOSE i \in 1..Len(books) : KeyOf(books[i]) = k]
             IN  [isbn |-> b.isbn, title |-> b.title, author |-> b.author, pages |-> b.pages]
        ELSE items[k]]

BatchWriteItem(items, books) ==
    [k \in DOMAIN items \cup {KeyOf(books[i]) : i \in 1..Len(books)} |->
        IF \E i \in 1..Len(books) : KeyOf(books[i]) = k
        THEN books[CHOOSE i \in 1..Len(books) : KeyOf(books[i]) = k]
        ELSE items[k]]

SetItems(st, name, items) == [st EXCEPT ![name].items = items]

-----------------------------------------------------------------------------
(* Books *)

\* Variant of exists for the sensitivity check of C5: every ClientError of
\* the load is taken for "not found".
exists_any_error(self_table, st, table_name, fault) ==
    LET err == RequestError(st, table_name, fault)
        cs  == <<Call("DescribeTable", err)>>
    IN  IF err = NoError
        THEN Result(Table(table_name), st, Return(True), cs)
        ELSE Result(self_table, st, Return(False), cs)

exists(self_table, st, table_name, fault) ==
    LET err == RequestError(st, table_name, fault)
        cs  == <<Call("DescribeTable", err)>>
    IN  IF err = NoError
        THEN Result(Table(table_name), st, Return(True), cs)
        ELSE IF err.code = "ResourceNotFoundException"
        THEN Result(self_table, st, Return(False), cs)
        ELSE Result(self_table, st, Raise(err), cs)

\* Variant of create_table for the sensitivity check of C6: the new table is
\* returned but not kept in self.table.
create_table_unkept(self_table, st, table_name, fault, wait) ==
    LET err == IF fault # "ok" THEN ClientError(fault)
               ELSE IF st[table_name].exists THEN ClientError("ResourceInUseException")
               ELSE NoError
        made == [st EXCEPT ![table_name] = EmptyTable]
    IN  IF err # NoError
        THEN Result(self_table, st, Raise(err), <<Call("CreateTable", err)>>)
        ELSE IF wait # "ok"
        THEN Result(self_table, made, Raise(WaiterError),
                    <<Call("CreateTable", NoError), Call("DescribeTable", WaiterError)>>)
        ELSE Result(self_table, made, Return(Table(table_name)),
                    <<Call("CreateTable", NoError), Call("DescribeTable", NoError)>>)

create_table(self_table, st, table_name, fault, wait) ==
    LET err == IF fault # "ok" THEN ClientError(fault)
               ELSE IF st[table_name].exists THEN ClientError("ResourceInUseException")
               ELSE NoError
        made == [st EXCEPT ![table_name] = EmptyTable]
    IN  IF err # NoError
        THEN Result(self_table, st, Raise(err), <<Call("CreateTable", err)>>)
        ELSE IF wait # "ok"
        THEN Result(Table(table_name), made, Raise(WaiterError),
                    <<Call("CreateTable", NoError), Call("DescribeTable", WaiterError)>>)
        ELSE Result(Table(table_name), made, Return(Table(table_name)),
                    <<Call("CreateTable", NoError), Call("DescribeTable", NoError)>>)

list_tables(self_table, st, fault) ==
    LET err == IF fault # "ok" THEN ClientError(fault) ELSE NoError
        cs  == <<Call("ListTables", err)>>
    IN  IF err # NoError
        THEN Result(self_table, st, Raise(err), cs)
        ELSE Result(self_table, st, Return(List({Table(n) : n \in {m \in DOMAIN st : st[m].exists}})), cs)

\* The batch writer buffers the puts and sends them when the with block
\* ends: one BatchWriteItem request for the batches written here (boto3 sends
\* a request per 25 items), none for an empty batch.
write_batch(self_table, st, books, fault) ==
    IF self_table = None
    THEN Result(self_table, st, Raise(AttributeError), <<>>)
    ELSE IF books = <<>>
    THEN Result(self_table, st, Return(None), <<>>)
    ELSE LET e1  == RequestError(st, self_table.name, fault)
             err == IF e1 # NoError THEN e1 ELSE BatchError(books)
             cs  == <<Call("BatchWriteItem", err)>>
         IN  IF err # NoError
             THEN Result(self_table, st, Raise(err), cs)
             ELSE Result(self_table,
                         SetItems(st, self_table.name, BatchWriteItem(st[self_table.name].items, books)),
                         Return(None), cs)

\* Variant of add_book for the sensitivity check of C8: a failed put is
\* sent once more, and the second request goes through.
add_book_retry(self_table, st, isbn, title, author, pages, fault) ==
    IF self_table = None
    THEN Result(self_table, st, Raise(AttributeError), <<>>)
    ELSE LET err  == RequestError(st, self_table.name, fault)
             item == [isbn |-> isbn, title |-> title, author |-> author, pages |-> pages]
         IN  IF err # NoError /\ ~st[self_table.name].exists
             THEN Result(self_table, st, Raise(err), <<Call("PutItem", err)>>)
             ELSE Result(self_table,
                         SetItems(st, self_table.name, PutItem(st[self_table.name].items, item)),
                         Return(None),
                         IF err = NoError THEN <<Call("PutItem", NoError)>>
                         ELSE <<Call("PutItem", err), Call("PutItem", NoError)>>)

add_book(self_table, st, isbn, title, author, pages, fault) ==
    IF self_table = None
    THEN Result(self_table, st, Raise(AttributeError), <<>>)
    ELSE LET err  == RequestError(st, self_table.name, fault)
             cs   == <<Call("PutItem", err)>>
             item == [isbn |-> isbn, title |-> title, author |-> author, pages |-> pages]
         IN  IF err # NoError
             THEN Result(self_table, st, Raise(err), cs)
             ELSE Result(self_table,
                         SetItems(st, self_table.name, PutItem(st[self_table.name].items, item)),
                         Return(None), cs)

get_book(self_table, st, isbn, title, fault) ==
    IF self_table = None
    THEN Result(self_table, st, Raise(AttributeError), <<>>)
    ELSE LET err == RequestError(st, self_table.name, fault)
             cs  == <<Call("GetItem", err)>>
         IN  IF err # NoError
             THEN Result(self_table, st, Raise(err), cs)
             ELSE LET response == GetItem(st[self_table.name].items, isbn, title)
                  IN  IF "Item" \in DOMAIN response
                      THEN Result(self_table, st, Return(response["Item"]), cs)
                      ELSE Result(self_table, st, Raise(KeyError), cs)

update_book(self_table, st, isbn, title, author, pages, fault) ==
    IF self_table = None
    THEN Result(self_table, st, Raise(AttributeError), <<>>)
    ELSE LET err == RequestError(st, self_table.name, fault)
             cs  == <<Call("UpdateItem", err)>>
         IN  IF err # NoError
             THEN Result(self_table, st, Raise(err), cs)
             ELSE LET items == UpdateItem(st[self_table.name].items, isbn, title, author, pages)
                  IN  Result(self_table, SetItems(st, self_table.name, items),
                             Return(UpdatedNew(items, isbn, title)), cs)

query_book(self_table, st, title, fault) ==
    IF self_table = None
    THEN Result(self_table, st, Raise(AttributeError), <<>>)
    ELSE LET cond == [a \in {RangeKey} |-> title]
             e1   == RequestError(st, self_table.name, fault)
             err  == IF e1 # NoError THEN e1 ELSE QueryError(cond)
             cs   == <<Call("Query", err)>>
         IN  IF err # NoError
             THEN Result(self_table, st, Raise(err), cs)
             ELSE Result(self_table, st,
                         Return(List(QueryItems(st[self_table.name].items, cond))), cs)

delete_book(self_table, st, isbn, title, fault) ==
    IF self_table = None
    THEN Result(self_table, st, Raise(AttributeError), <<>>)
    ELSE LET err == RequestError(st, self_table.name, fault)
             cs  == <<Call("DeleteItem", err)>>
         IN  IF err # NoError
             THEN Result(self_table, st, Raise(err), cs)
             ELSE Result(self_table,
                         SetItems(st, self_table.name, DeleteItem(st[self_table.name].items, isbn, title)),
                         Return(None), cs)

\* Variant of delete_table for the sensitivity check of C9: the handle is
\* cleared before the remote delete is known to have succeeded.
delete_table_clear_first(self_table, st, fault) ==
    IF self_table = None
    THEN Result(self_table, st, Raise(AttributeError), <<>>)
    ELSE LET err == RequestError(st, self_table.name, fault)
             cs  == <<Call("DeleteTable", err)>>
         IN  IF err # NoError
             THEN Result(None, st, Raise(err), cs)
             ELSE Result(None, [st EXCEPT ![self_table.name] = NoTable], Return(None), cs)

delete_table(self_table, st, fault) ==
    IF self_table = None
    THEN Result(self_table, st, Raise(AttributeError), <<>>)
    ELSE LET err == RequestError(st, self_table.name, fault)
             cs  == <<Call("DeleteTable", err)>>
         IN  IF err # NoError
             THEN Result(self_table, st, Raise(err), cs)
             ELSE Result(None, [st EXCEPT ![self_table.name] = NoTable], Return(None), cs)

-----------------------------------------------------------------------------
(* The records run_scenario writes *)

my_book ==
    [isbn |-> "9781593279509", title |-> "Eloquent JavaScript, Third Edition",
     author |-> "Marijn Haverbeke", pages |-> 472]

book_update ==
    [isbn |-> "8888893299999", title |-> "Django JavaScript, Third Edition",
     author |-> "John", pages |-> 1000]

\* Variant of my_book_updated for the sensitivity check of C10: the update
\* of my_book is left out.
my_book_not_updated == my_book

\* my_book.update(book_update): every key of book_update overwrites my_book's.
my_book_updated ==
    [a \in DOMAIN my_book \cup DOMAIN book_update |->
        IF a \in DOMAIN book_update THEN book_update[a] ELSE my_book[a]]

batch_book_1 ==
    [isbn |-> "9781593279509", title |-> "Eloquent JavaScript, Third Edition",
     subtitle |-> "A Modern Introduction to Programming",
     author |-> "Marijn Haverbeke", published |-> "2018-12-04T00:00:00.000Z",
     publisher |-> "No Starch Press", pages |-> 472,
     description |-> "JavaScript lies at the heart of almost every modern web application, from social apps like Twitter to browser-based game frameworks like Phaser and Babylon. Though simple for beginners to pick up and play with, JavaScript is a flexible, complex language that you can use to build full-scale applications.",
     website |-> "http://eloquentjavascript.net/"]

\* The author's name is written in ASCII here.
batch_book_2 ==
    [isbn |-> "9781491943533", title |-> "Practical Modern JavaScript",
     subtitle |-> "Dive into ES6 and the Future of JavaScript",
     author |-> "Nicolas Bevacqua", published |-> "2017-07-16T00:00:00.000Z",
     publisher |-> "O'Reilly Media", pages |-> 334,
     description |-> "To get the most out of modern JavaScript, you need learn the latest features of its parent specification, ECMAScript 6 (ES6). This book provides a highly practical look at ES6, without getting lost in the specification or its implementation details.",
     website |-> "https://github.com/mjavascript/practical-modern-javascript"]

batch_book_3 ==
    [isbn |-> "9781593277574", title |-> "Understanding ECMAScript 6",
     subtitle |-> "The Definitive Guide for JavaScript Developers",
     author |-> "Nicholas C. Zakas", published |-> "2016-09-03T00:00:00.000Z",
     publisher |-> "No Starch Press", pages |-> 352,
     description |-> "ECMAScript 6 represents the biggest update to the core of JavaScript in the history of the language. In Understanding ECMAScript 6, expert developer Nicholas C. Zakas provides a complete guide to the object types, syntax, and other exciting changes that ECMAScript 6 brings to JavaScript.",
     website |-> "https://leanpub.com/understandinges6/read"]

scenario_batch == <<batch_book_1, batch_book_2, batch_book_3>>

-----------------------------------------------------------------------------
(* Any caller: the facade's methods in any order, on inputs from small sets *)

\* Full records a caller batch-writes: two of the scenario's, and a second
\* record at the first one's key.
BatchBooks ==
    {batch_book_1, batch_book_3,
     [batch_book_1 EXCEPT !.author = "John", !.pages = 1000]}

\* The sequences of at most n elements of S, none of them twice.
RECURSIVE SeqsUpTo(_, _)
SeqsUpTo(S, n) ==
    IF n = 0 THEN {<<>>}
    ELSE LET shorter == SeqsUpTo(S, n - 1)
             longest == {q \in shorter : Len(q) = n - 1}
         IN  shorter \cup
             UNION {{Append(q, x) : x \in S \ {q[i] : i \in 1..Len(q)}} : q \in longest}

Batches == SeqsUpTo(BatchBooks, MaxBatch)

KeysOf(books) == {KeyOf(books[i]) : i \in 1..Len(books)}

\* The history variables after a call of `op` on `args` with result r.
NextCreated(op, args, r) ==
    IF op = "delete_table" THEN {}
    ELSE IF op = "create_table" /\ r.out.kind = "return" THEN created \cup {args[1]}
    ELSE created

NextLastAdd(op, args, r) ==
    LET others(keys) == {e \in lastAdd : ~(e[1] = table /\ KeyOf(e[2]) \in keys)}
    IN  IF r.out.kind # "return" THEN lastAdd
        ELSE IF op = "add_book"
        THEN others({<<args[1], args[2]>>}) \cup
                {<<table, [isbn |-> args[1], title |-> args[2],
                           author |-> args[3], pages |-> args[4]]>>}
        ELSE IF op \in {"update_book", "delete_book"} THEN others({<<args[1], args[2]>>})
        ELSE IF op = "write_batch" THEN others(KeysOf(args[1]))
        ELSE IF op = "delete_table" THEN {e \in lastAdd : e[1] # table}
        ELSE lastAdd

Do(op, args, r) ==
    /\ table' = r.table
    /\ store' = r.store
    /\ ret' = [op |-> op, out |-> r.out]
    /\ calls' = r.calls
    /\ created' = NextCreated(op, args, r)
    /\ lastAdd' = NextLastAdd(op, args, r)

\* A call by any caller: it leaves no table with more than MaxItems items.
Called(op, args, r) ==
    /\ \A n \in TableNames : Cardinality(DOMAIN r.store[n].items) <= MaxItems
    /\ Do(op, args, r)
    /\ pc' = pc

CallExists ==
    /\ pc = "free"
    /\ \E n \in TableNames, f \in Faults :
            Called("exists", <<n>>, exists(table, store, n, f))

CallCreateTable ==
    /\ pc = "free"
    /\ \E n \in Creatable, f \in Faults, w \in {"ok", "WaiterError"} :
            Called("create_table", <<n>>, create_table(table, store, n, f, w))

CallListTables ==
    /\ pc = "free"
    /\ \E f \in Faults :
            Called("list_tables", <<>>, list_tables(table, store, f))

CallWriteBatch ==
    /\ pc = "free"
    /\ \E books \in Batches, f \in Faults :
            Called("write_batch", <<books>>, write_batch(table, store, books, f))

CallAddBook ==
    /\ pc = "free"
    /\ \E k \in Keys, w \in Written, f \in Faults :
            Called("add_book", <<k[1], k[2], w[1], w[2]>>,
                   add_book(table, store, k[1], k[2], w[1], w[2], f))

CallGetBook ==
    /\ pc = "free"
    /\ \E k \in Keys, f \in Faults :
            Called("get_book", k, get_book(table, store, k[1], k[2], f))

CallUpdateBook ==
    /\ pc = "free"
    /\ \E k \in Keys, w \in Written, f \in Faults :
            Called("update_book", <<k[1], k[2], w[1], w[2]>>,
                   update_book(table, store, k[1], k[2], w[1], w[2], f))

CallQueryBook ==
    /\ pc = "free"
    /\ \E t \in Titles, f \in Faults :
            Called("query_book", <<t>>, query_book(table, store, t, f))

CallDeleteBook ==
    /\ pc = "free"
    /\ \E k \in Keys, f \in Faults :
            Called("delete_book", k, delete_book(table, store, k[1], k[2], f))

CallDeleteTable ==
    /\ pc = "free"
    /\ \E f \in Faults :
            Called("delete_table", <<>>, delete_table(table, store, f))

\* Books(dyn_resource): no handle yet; the store holds the table or does not.
Init ==
    /\ table = None
    /\ store \in {[n \in TableNames |-> NoTable],
                 [n \in TableNames |-> IF n \in Creatable THEN EmptyTable ELSE NoTable]}
    /\ ret = [op |-> "__init__", out |-> Return(None)]
    /\ calls = <<>>
    /\ pc = "free"
    /\ lastAdd = {}
    /\ created = {}

Next ==
    \/ CallExists
    \/ CallCreateTable
    \/ CallListTables
    \/ CallWriteBatch
    \/ CallAddBook
    \/ CallGetBook
    \/ CallUpdateBook
    \/ CallQueryBook
    \/ CallDeleteBook
    \/ CallDeleteTable

Spec == Init /\ [][Next]_vars

-----------------------------------------------------------------------------
(* run_scenario under __main__'s try/except *)

scenario_table == "table-books"

\* Items a table left over from an earlier run may hold.
PreItems ==
    {[batch_book_1 EXCEPT !.pages = 1000],
     [book_update EXCEPT !.author = "Marijn Haverbeke", !.pages = 472],
     [batch_book_3 EXCEPT !.author = "John"],
     [my_book EXCEPT !.title = "Understanding ECMAScript 6"],
     [book_update EXCEPT !.isbn = "9781593277574"]}

ItemsOf(S) == [k \in {KeyOf(x) : x \in S} |-> CHOOSE x \in S : KeyOf(x) = k]

\* One statement of run_scenario: an exception leaves the function and is
\* caught by __main__'s except clause, which prints it and ends the process.
Run(op, args, r, next) ==
    /\ Do(op, args, r)
    /\ pc' = IF r.out.kind = "raise" THEN "caught" ELSE next

DemoExists ==
    /\ pc = "exists"
    /\ \E f \in Faults :
        LET r == exists(table, store, scenario_table, f)
        IN  Run("exists", <<scenario_table>>, r,
                IF r.out.kind = "return" /\ r.out.value = True THEN "add_book"
                ELSE "create_table")

DemoCreateTable ==
    /\ pc = "create_table"
    /\ \E f \in Faults, w \in {"ok", "WaiterError"} :
        Run("create_table", <<scenario_table>>,
            create_table(table, store, scenario_table, f, w), "add_book")

DemoAddBook ==
    /\ pc = "add_book"
    /\ \E f \in Faults :
        Run("add_book", <<my_book.isbn, my_book.title, my_book.author, my_book.pages>>,
            add_book(table, store, my_book.isbn, my_book.title,
                     my_book.author, my_book.pages, f),
            "update_book")

DemoUpdateBook ==
    /\ pc = "update_book"
    /\ \E f \in Faults :
        LET b == my_book_updated
        IN  Run("update_book", <<b.isbn, b.title, b.author, b.pages>>,
                update_book(table, store, b.isbn, b.title, b.author, b.pages, f),
                "write_batch")

DemoWriteBatch ==
    /\ pc = "write_batch"
    /\ \E f \in Faults :
        Run("write_batch", <<scenario_batch>>,
            write_batch(table, store, scenario_batch, f), "get_book")

DemoGetBook ==
    /\ pc = "get_book"
    /\ \E f \in Faults :
        Run("get_book", <<"9781593277574", "Understanding ECMAScript 6">>,
            get_book(table, store, "9781593277574", "Understanding ECMAScript 6", f),
            "delete_book")

DemoDeleteBook ==
    /\ pc = "delete_book"
    /\ \E f \in Faults :
        Run("delete_book", <<"9781593277574", "Understanding ECMAScript 6">>,
            delete_book(table, store, "9781593277574", "Understanding ECMAScript 6", f),
            "delete_table")

DemoDeleteTable ==
    /\ pc = "delete_table"
    /\ \E f \in Faults :
        Run("delete_table", <<>>, delete_table(table, store, f), "done")

DemoInit ==
    /\ table = None
    /\ store \in {[n \in TableNames |-> NoTable]} \cup
                 {[n \in TableNames |->
                      IF n = scenario_table
                      THEN [exists |-> TRUE, items |-> ItemsOf(S)]
                      ELSE NoTable] : S \in SUBSET PreItems}
    /\ ret = [op |-> "__init__", out |-> Return(None)]
    /\ calls = <<>>
    /\ pc = "exists"
    /\ lastAdd = {}
    /\ created = {}

DemoNext ==
    \/ DemoExists
    \/ DemoCreateTable
    \/ DemoAddBook
    \/ DemoUpdateBook
    \/ DemoWriteBatch
    \/ DemoGetBook
    \/ DemoDeleteBook
    \/ DemoDeleteTable

DemoSpec == DemoInit /\ [][DemoNext]_vars

-----------------------------------------------------------------------------
(* Properties *)

Items == IF table = None THEN NoItems ELSE store[table.name].items

\* The step is a call of `op` with result r.
Took(op, r) ==
    /\ ret'.op = op
    /\ ret'.out.kind = r.out.kind
    /\ ret'.out.value = r.out.value
    /\ table' = r.table
    /\ store' = r.store
    /\ calls' = r.calls

\* The handle is held and the store holds its table.
Usable == table # None /\ store[table.name].exists

\* The add_book records that are the latest write to key k of the held table.
LatestAdd(k) == {e[2] : e \in {x \in lastAdd : x[1] = table /\ KeyOf(x[2]) = k}}

\* C1: a get_book of a key whose latest write is an add_book (no delete or
\* other write of the key since, whatever add_book calls came before it, on
\* this key or on others) returns a record at that key whose author and
\* pages are those of that add_book.
C1_LastWriteWins ==
    [][\A k \in Keys :
          (/\ ret'.op = "get_book"
           /\ Usable
           /\ LatestAdd(k) # {}
           /\ Took("get_book", get_book(table, store, k[1], k[2], "ok")))
          => /\ ret'.out.kind = "return"
             /\ KeyOf(ret'.out.value) = k
             /\ \A b \in LatestAdd(k) :
                   /\ ret'.out.value.author = b.author
                   /\ ret'.out.value.pages = b.pages]_vars

\* A get_book has returned the record an add_book wrote, in a table that
\* also holds a batch-written record.
C1_Witness ==
    /\ ret.op = "get_book"
    /\ ret.out.kind = "return"
    /\ DOMAIN ret.out.value = {"isbn", "title", "author", "pages"}
    /\ ret.out.value.author = "John"
    /\ \E e \in lastAdd : e[2].isbn = ret.out.value.isbn /\ e[2].title = ret.out.value.title
    /\ \E k \in DOMAIN Items : "subtitle" \in DOMAIN Items[k]

\* C2: delete_book on a key with no record does not raise, and the get_book
\* of that key after it returns None instead of failing.
C2_DeleteThenGetAbsent ==
    [][\A k \in Keys :
          (ret'.op \in {"delete_book", "get_book"} /\ Usable /\ k \notin DOMAIN Items)
          => /\ Took("delete_book", delete_book(table, store, k[1], k[2], "ok"))
                => ret'.out.kind = "return"
             /\ (/\ ret.op = "delete_book"
                 /\ ret.out.kind = "return"
                 /\ Took("get_book", get_book(table, store, k[1], k[2], "ok")))
                => (ret'.out.kind = "return" /\ ret'.out.value = None)]_vars

\* C3: query_book(title) returns exactly the records of the table whose
\* title is the argument (none when no record has it).
C3_QueryByTitle ==
    [][\A t \in Titles :
          (ret'.op = "query_book" /\ Usable
             /\ Took("query_book", query_book(table, store, t, "ok")))
          => /\ ret'.out.kind = "return"
             /\ ret'.out.value = List({Items[k] : k \in {j \in DOMAIN Items : j[2] = t}})]_vars

\* C4: update_book on an existing record sets author and pages of that
\* record and nothing else: its other attributes, the records at the other
\* keys, the other tables and the handle are as before, and the value
\* returned holds exactly author and pages with their new values.
C4_UpdateFrame ==
    [][\A k \in Keys, w \in Written :
          (/\ ret'.op = "update_book"
           /\ Usable
           /\ k \in DOMAIN Items
           /\ Took("update_book",
                     update_book(table, store, k[1], k[2], w[1], w[2], "ok")))
          => LET old == Items[k]
                 new == store'[table.name].items[k]
             IN  /\ table' = table
                 /\ \A n \in TableNames \ {table.name} : store'[n] = store[n]
                 /\ store'[table.name].exists
                 /\ DOMAIN store'[table.name].items = DOMAIN Items
                 /\ \A j \in DOMAIN Items \ {k} : store'[table.name].items[j] = Items[j]
                 /\ DOMAIN new = DOMAIN old \cup {"author", "pages"}
                 /\ \A a \in DOMAIN old \ {"author", "pages"} : new[a] = old[a]
                 /\ new.author = w[1]
                 /\ new.pages = w[2]
                 /\ ret'.out.kind = "return"
                 /\ DOMAIN ret'.out.value = {"author", "pages"}
                 /\ ret'.out.value.author = w[1]
                 /\ ret'.out.value.pages = w[2]]_vars

\* An update_book has returned the new author and pages of a batch-written
\* record, whose extra attributes are still stored.
C4_Witness ==
    /\ ret.op = "update_book"
    /\ ret.out.kind = "return"
    /\ \E k \in DOMAIN Items :
          /\ "subtitle" \in DOMAIN Items[k]
          /\ Items[k].publisher = "No Starch Press"
          /\ Items[k].isbn = batch_book_3.isbn
          /\ Items[k].author # batch_book_3.author
          /\ Items[k].author = ret.out.value.author
          /\ Items[k].pages = ret.out.value.pages
    /\ Cardinality(DOMAIN Items) = 2

\* C5: exists(table_name) on a table the store does not hold returns False
\* without raising; ResourceNotFoundException is the only error it turns
\* into a result; any other service error of the load is raised again; in
\* both cases the handle is as before, and the handle is set only by a
\* load that succeeds.
C5_ExistsAbsent ==
    [][\A n \in TableNames, f \in Faults :
          (ret'.op = "exists" /\ Took("exists", exists(table, store, n, f)))
          => /\ store' = store
             /\ (f = "ok" /\ ~store[n].exists)
                => (ret'.out.kind = "return" /\ ret'.out.value = False /\ table' = table)
             /\ f # "ok"
                => (ret'.out.kind = "raise" /\ ret'.out.value = ClientError(f)
                    /\ table' = table)
             /\ (ret'.out.kind = "return" /\ ret'.out.value = False)
                => calls'[1].err = ClientError("ResourceNotFoundException")
             /\ table' # table => (f = "ok" /\ store[n].exists /\ table' = Table(n))]_vars

\* exists has returned False for an absent table while the handle of
\* another, existing table stayed retained.
C5_Witness ==
    /\ ret.op = "exists"
    /\ ret.out.kind = "return"
    /\ ret.out.value = False
    /\ table # None

\* C6: from a create_table(table_name) that returned until delete_table is
\* called, whatever item operations come in between, a handle stays
\* retained and every exists(table_name) returns True unless its load is
\* answered with a service error (which it raises); it never returns False.
C6_ExistsAfterCreate ==
    [][/\ created' # {} => table' # None
       /\ \A n \in created, f \in Faults :
             (ret'.op = "exists" /\ Took("exists", exists(table, store, n, f)))
             => /\ table' # None
                /\ ret'.out.kind = "return" => ret'.out.value = True
                /\ f = "ok" => (ret'.out.kind = "return" /\ table' = Table(n))]_vars

\* exists has returned True for a table created earlier, into which items
\* were written since.
C6_Witness ==
    /\ ret.op = "exists"
    /\ ret.out.kind = "return"
    /\ ret.out.value = True
    /\ table # None
    /\ table.name \in created
    /\ Cardinality(DOMAIN Items) = 2

Distinct(books) ==
    \A i, j \in 1..Len(books) : i # j => KeyOf(books[i]) # KeyOf(books[j])

Orders(n) == {p \in [1..n -> 1..n] : \A i, j \in 1..n : i # j => p[i] # p[j]}

\* The items after the books are put one at a time, in the order p.
RECURSIVE PutOneByOne(_, _, _, _)
PutOneByOne(items, books, p, n) ==
    IF n = 0 THEN items
    ELSE PutItem(PutOneByOne(items, books, p, n - 1), books[p[n]])

\* C7: after a write_batch of records with pairwise distinct keys has
\* returned, get_book on each of their keys returns the record as written,
\* every attribute included, and the table holds what putting the records
\* one at a time, in any order, leaves in it.
C7_BatchIsMultiplexer ==
    [][ret'.op = "write_batch" =>
       \A books \in Batches :
          (/\ Usable
           /\ Distinct(books)
           /\ Took("write_batch", write_batch(table, store, books, "ok")))
          => /\ ret'.out.kind = "return"
             /\ \A i \in 1..Len(books) :
                   LET g == get_book(table', store', books[i].isbn, books[i].title, "ok")
                   IN  g.out.kind = "return" /\ g.out.value = books[i]
             /\ \A p \in Orders(Len(books)) :
                   store'[table.name].items = PutOneByOne(Items, books, p, Len(books))]_vars

\* A write_batch has returned and two batch-written records are stored in a
\* table created earlier.
C7_Witness ==
    /\ ret.op = "write_batch"
    /\ ret.out.kind = "return"
    /\ batch_book_3 \in {Items[k] : k \in DOMAIN Items}
    /\ \E k \in DOMAIN Items : Items[k] \in BatchBooks \ {batch_book_3}
    /\ lastAdd = {}
    /\ created # {}

\* C8: a facade call whose remote request fails issues no further request
\* and raises that very error, except that exists returns False for
\* ResourceNotFoundException; no request is issued twice by one call.
C8_LogAndRethrow ==
    /\ \A i \in 1..Len(calls) :
          calls[i].err # NoError
          => /\ i = Len(calls)
             /\ IF ret.op = "exists" /\ calls[i].err = ClientError("ResourceNotFoundException")
                THEN ret.out.kind = "return" /\ ret.out.value = False
                ELSE ret.out.kind = "raise" /\ ret.out.value = calls[i].err
    /\ \A i, j \in 1..Len(calls) : i # j => calls[i].api # calls[j].api

\* An update_book has raised the service error its request was answered with.
C8_Witness ==
    /\ ret.op = "update_book"
    /\ ret.out.kind = "raise"
    /\ ret.out.value = ClientError("InternalServerError")
    /\ calls = <<Call("UpdateItem", ClientError("InternalServerError"))>>

ItemOps == {"write_batch", "add_book", "get_book", "update_book", "query_book", "delete_book"}

\* delete_table with a handle: the table is dropped and the handle cleared
\* when the remote delete succeeds; nothing changes when it fails.
DeleteTableEffect ==
    (table # None /\ ret'.op = "delete_table")
    => IF ret'.out.kind = "return"
       THEN table' = None /\ ~store'[table.name].exists
       ELSE table' = table /\ store' = store /\ Len(calls') = 1

\* Without a handle, delete_table and the item operations fail before any
\* request is issued.
NoHandleEffect ==
    (table = None /\ ret'.op \in ItemOps \cup {"delete_table"})
    => /\ ret'.out.kind = "raise"
       /\ ret'.out.value = AttributeError
       /\ calls' = <<>>
       /\ table' = None
       /\ store' = store

\* C9 as claimed: ... and an absent handle stays absent until an exists or a
\* create_table succeeds.
C9_Original ==
    [][/\ DeleteTableEffect
       /\ NoHandleEffect
       /\ (table = None /\ table' # None)
          => (ret'.op \in {"exists", "create_table"} /\ ret'.out.kind = "return")]_vars

\* C9, amended: ... and an absent handle stays absent until an exists
\* returns True or the store accepts the create request of a create_table,
\* whether or not the wait that follows it succeeds.
C9_HandleLifecycle ==
    [][/\ DeleteTableEffect
       /\ NoHandleEffect
       /\ (table = None /\ table' # None)
          => \/ ret'.op = "exists" /\ ret'.out.kind = "return" /\ ret'.out.value = True
             \/ ret'.op = "create_table" /\ calls'[1] = Call("CreateTable", NoError)]_vars

\* A create_table has raised the waiter's error and the handle is retained.
C9_Witness ==
    /\ ret.op = "create_table"
    /\ ret.out.kind = "raise"
    /\ ret.out.value = WaiterError
    /\ table # None

Order ==
    <<"exists", "create_table", "add_book", "update_book", "write_batch",
      "get_book", "delete_book", "delete_table", "done">>

Position(p) == CHOOSE i \in 1..Len(Order) : Order[i] = p

ScenarioItems == store[scenario_table].items

\* C10: run_scenario calls exists, create_table only when exists returned
\* False, then add_book, update_book at another key (where the store then
\* holds a record), write_batch of three records, get_book, delete_book and
\* delete_table, in this order; a run without failure ends with the table
\* absent and the handle cleared; a failing step ends the run, caught.
C10_Scenario ==
    /\ [](pc = "done" => (table = None /\ ~store[scenario_table].exists
                          /\ ret.op = "delete_table"))
    /\ [][/\ pc \notin {"done", "caught"}
          /\ ret'.op = pc
          /\ pc' = IF ret'.out.kind = "raise" THEN "caught"
                   ELSE IF pc = "exists" /\ ret'.out.value = True THEN "add_book"
                   ELSE Order[Position(pc) + 1]
          /\ pc = "create_table"
             => (ret.op = "exists" /\ ret.out.value = False)
          /\ pc' = "update_book" => ScenarioItems'[KeyOf(my_book)] = my_book
          /\ pc' = "write_batch"
             => /\ KeyOf(my_book_updated) # KeyOf(my_book)
                /\ KeyOf(my_book_updated) \in DOMAIN ScenarioItems'
                /\ ScenarioItems'[KeyOf(my_book_updated)].author = "John"
                /\ ScenarioItems'[KeyOf(my_book_updated)].pages = 1000
                /\ ScenarioItems'[KeyOf(my_book)] = my_book
          /\ pc' = "get_book"
             => \A i \in 1..3 : ScenarioItems'[KeyOf(scenario_batch[i])] = scenario_batch[i]
          /\ pc' = "delete_book" => ret'.out.value = batch_book_3
          /\ pc' = "delete_table" => KeyOf(batch_book_3) \notin DOMAIN ScenarioItems'
         ]_vars

\* A run has ended without failure.
C10_Witness ==
    /\ pc = "done"
    /\ table = None
    /\ ~store[scenario_table].exists
    /\ created = {}

====
